---- MODULE Spec2Model ----
(***************************************************************************)
(* OSMAlchemy: the element model (osmalchemy/model.py), the OSM XML        *)
(* importer (osmalchemy/util.py), the single-element Overpass fetch        *)
(* (osmalchemy/online.py) and the query trigger with its where-clause       *)
(* analyser (osmalchemy/triggers.py, osmalchemy/util.py).                   *)
(*                                                                         *)
(* The store is the list of rows of the elements table, indexed by the     *)
(* surrogate key element_id; way and relation rows carry their association *)
(* rows (ways_nodes, relations_elements) with the position column.         *)
(* `db` is what is committed, `sess` is the session's view of the same     *)
(* rows including changes not yet flushed.                                 *)
(***************************************************************************)
EXTENDS Integers, Sequences, FiniteSets, TLC

VARIABLES
    db,       \* committed rows of the elements table, index = element_id
    sess,     \* the session's persistent objects (db plus unflushed changes)
    now,      \* datetime.datetime.now()
    pc,       \* "idle" | "records" (in _import_osm_dom's loop) | "members" (in _dom_to_relation's loop)
    doc,      \* the children of the document element being imported
    idx,      \* index of the child the loop of _import_osm_dom is at
    wrow,     \* _dom_to_relation: element_id of `relation` when it was found in the store, else 0
    obj,      \* _dom_to_relation: `relation` while it is a new object not yet added to the session
    mpos,     \* _dom_to_relation: index of the member the loop is at
    error,    \* the exception the last import raised to its caller, "none" if it returned
    imports,  \* number of imports started
    pre,      \* history: db when the running (or last) import started
    made,     \* history: per child handled in this import, the row it wrote and whether it was new
    hist,     \* history: the previous import (its document, its outcome, db after it)
    stubs,    \* history: the rows made as stubs, each with the key of the relation that referenced it
    visited,  \* _visited_queries
    tree,     \* _query_compiling: the local `tree` when the call just made returned
    fetches,  \* the calls made to api.Get, in order
    got,      \* what the call of _get_single_element_by_id just made gave its caller
    remote,   \* whether the Overpass service answers
    lastq,    \* the query the application just ran, and the rows it was given
    events,   \* what happened during that query, in order
    other     \* a second session running _dom_to_node on the same store: its position and locals

vars == <<db, sess, now, pc, doc, idx, wrow, obj, mpos, error, imports, pre, made,
          hist, stubs, visited, tree, fetches, got, remote, lastq, events, other>>

importVars == <<db, sess, pc, doc, idx, wrow, obj, mpos, error, imports, pre, made, hist, stubs>>
readVars == <<now, visited, tree, fetches, got, remote, lastq, events, other>>

-----------------------------------------------------------------------------
(* Bounds of the model *)

MaxImports == 3
MaxTime == 2
MaxQueries == 2
MaxFetches == 1

-----------------------------------------------------------------------------
(* Values *)

Kinds == {"node", "way", "relation"}

\* The (kind, external id) of a row
Key(r) == <<r.type, r.id>>

\* Python's None / SQL NULL, and a value that is set
None == <<>>
Some(v) == <<v>>

\* An empty dict of tags
EmptyTags == [k \in {} |-> ""]

Has(e, k) == k \in DOMAIN e.attrs

\* A freshly constructed element: osma.node(id=..), osma.way(id=..),
\* osma.relation(id=..).  OSMNode.__init__ defaults latitude and longitude
\* to 0.0; every other column is unset until it is assigned.
NewElement(type, id) ==
    [type |-> type, id |-> id,
     latitude |-> IF type = "node" THEN Some(0) ELSE None,
     longitude |-> IF type = "node" THEN Some(0) ELSE None,
     version |-> None, changeset |-> None, user |-> None, uid |-> None,
     visible |-> None, timestamp |-> None,
     tags |-> EmptyTags, members |-> <<>>, osmalchemy_updated |-> None]

\* The columns of a row that live in the elements table itself (model.py:86-110)
ElementColumns(r) ==
    <<r.type, r.id, r.version, r.changeset, r.user, r.uid, r.visible, r.timestamp>>

\* session.commit(): every new object is INSERTed, and osmalchemy_updated gets its
\* default (now); every object with a changed column of the elements table is
\* UPDATEd, and osmalchemy_updated gets its onupdate value (now).  Rows of the
\* nodes table, tags and association rows are written as they are.
Commit(s, d, t) ==
    [i \in 1..Len(s) |->
        IF i > Len(d) THEN [s[i] EXCEPT !.osmalchemy_updated = Some(t)]
        ELSE IF ElementColumns(s[i]) # ElementColumns(d[i])
             THEN [s[i] EXCEPT !.osmalchemy_updated = Some(t)]
             ELSE s[i]]

\* session.query(cls).filter_by(id=id): the element_ids of the matching rows
Lookup(s, type, id) == {r \in 1..Len(s) : s[r].type = type /\ s[r].id = id}

\* Query.scalar(): None for no row, the row for one, MultipleResultsFound for more
Scalar(found) ==
    IF found = {} THEN [err |-> "none", row |-> 0]
    ELSE IF Cardinality(found) = 1 THEN [err |-> "none", row |-> CHOOSE r \in found : TRUE]
    ELSE [err |-> "MultipleResultsFound", row |-> 0]

\* Query.one(): NoResultFound for no row, the row for one, MultipleResultsFound for more
One(found) ==
    IF found = {} THEN [err |-> "NoResultFound", row |-> 0]
    ELSE IF Cardinality(found) = 1 THEN [err |-> "none", row |-> CHOOSE r \in found : TRUE]
    ELSE [err |-> "MultipleResultsFound", row |-> 0]

\* Variant: the lookup of a node never finds it
FindNodeNone(s, id) == [err |-> "none", row |-> 0]

\* session.query(osma.node).filter_by(id=id).scalar() (util.py:74)
FindNode(s, id) == Scalar(Lookup(s, "node", id))

\* session.query(osma.way).filter_by(id=id).scalar() (util.py:96)
FindWay(s, id) == Scalar(Lookup(s, "way", id))

\* session.query(osma.relation).filter_by(id=id).scalar() (util.py:122)
FindRelation(s, id) == Scalar(Lookup(s, "relation", id))

\* Variant: the lookup of a way's node forgets its filter and takes the first node
FindWayNodeFirst(s, ref) ==
    LET nodes == {r \in 1..Len(s) : s[r].type = "node"} IN
    IF nodes = {} THEN [err |-> "NoResultFound", row |-> 0]
    ELSE [err |-> "none", row |-> CHOOSE r \in nodes : \A o \in nodes : r <= o]

\* session.query(osma.node).filter_by(id=ref).one() (util.py:104)
FindWayNode(s, ref) == One(Lookup(s, "node", ref))

\* Variant: the lookup of a relation's member never finds it
FindElementNone(s, type, ref) == [err |-> "none", row |-> 0]

\* session.query(osma.element).filter_by(id=ref, type=type).scalar() (util.py:136)
FindElement(s, type, ref) == Scalar(Lookup(s, type, ref))

\* Variant: the visible attribute of the record is not taken over
DomAttrsToAnyButVisible(e, element) ==
    [element EXCEPT
        !.version   = IF Has(e, "version") THEN Some(e.attrs.version) ELSE @,
        !.changeset = IF Has(e, "changeset") THEN Some(e.attrs.changeset) ELSE @,
        !.user      = IF Has(e, "user") THEN Some(e.attrs.user) ELSE @,
        !.uid       = IF Has(e, "uid") THEN Some(e.attrs.uid) ELSE @,
        !.timestamp = IF Has(e, "timestamp") THEN Some(e.attrs.timestamp) ELSE @]

\* _dom_attrs_to_any: only the attributes the record carries are assigned
DomAttrsToAny(e, element) ==
    [element EXCEPT
        !.version   = IF Has(e, "version") THEN Some(e.attrs.version) ELSE @,
        !.changeset = IF Has(e, "changeset") THEN Some(e.attrs.changeset) ELSE @,
        !.user      = IF Has(e, "user") THEN Some(e.attrs.user) ELSE @,
        !.uid       = IF Has(e, "uid") THEN Some(e.attrs.uid) ELSE @,
        !.visible   = IF Has(e, "visible") THEN Some(e.attrs.visible = "true") ELSE @,
        !.timestamp = IF Has(e, "timestamp") THEN Some(e.attrs.timestamp) ELSE @]

\* The dict built by the loop of _dom_tags_to_any: a later <tag k=..> overwrites
RECURSIVE TagsDict(_)
TagsDict(ts) ==
    IF ts = <<>> THEN EmptyTags
    ELSE LET d == TagsDict(SubSeq(ts, 1, Len(ts) - 1))
             t == ts[Len(ts)]
         IN [k \in DOMAIN d \cup {t[1]} |-> IF k = t[1] THEN t[2] ELSE d[k]]

\* Variant: the tags of the record are added to those the element has
DomTagsToAnyMerging(e, element) ==
    [element EXCEPT !.tags = [k \in DOMAIN @ \cup DOMAIN TagsDict(e.tags) |->
                                 IF k \in DOMAIN TagsDict(e.tags) THEN TagsDict(e.tags)[k]
                                 ELSE @[k]]]

\* _dom_tags_to_any: element.tags = tags replaces the whole mapping
DomTagsToAny(e, element) == [element EXCEPT !.tags = TagsDict(e.tags)]

-----------------------------------------------------------------------------
(* The feed documents.  Coordinates, and the float literals of filters, are
   written in tenths of a degree. *)

Rec(name, attrs, nds, members, tags) ==
    [name |-> name, attrs |-> attrs, nds |-> nds, members |-> members, tags |-> tags]

Member(type, ref, role) == [type |-> type, ref |-> ref, role |-> role]

NodeA == Rec("node", [id |-> 1, lat |-> 507, lon |-> 71, version |-> 1, visible |-> "true"],
             <<>>, <<>>, << <<"name", "a">> >>)
NodeA2 == Rec("node", [id |-> 1, lat |-> 499, lon |-> 73, changeset |-> 5],
              <<>>, <<>>, <<>>)
NodeB == Rec("node", [id |-> 2, lat |-> 500, lon |-> 72], <<>>, <<>>, <<>>)
NodeGone == Rec("node", [id |-> 1, lat |-> 507, lon |-> 71, version |-> 2, visible |-> "false"],
                <<>>, <<>>, << <<"name", "b">>, <<"note", "gone">> >>)
NodeNoLon == Rec("node", [id |-> 2, lat |-> 530], <<>>, <<>>, <<>>)
NodeNoId == Rec("node", [lat |-> 500, lon |-> 70], <<>>, <<>>, <<>>)
WayA == Rec("way", [id |-> 1, version |-> 1], <<1, 2, 1>>, <<>>, << <<"highway", "x">> >>)
WayB == Rec("way", [id |-> 2], <<2, 1>>, <<>>, <<>>)
WayGap == Rec("way", [id |-> 1], <<1, 3>>, <<>>, <<>>)
RelA == Rec("relation", [id |-> 1, version |-> 1], <<>>,
            <<Member("node", 1, Some("stop")), Member("way", 1, None)>>,
            << <<"type", "route">> >>)
RelFwd == Rec("relation", [id |-> 2], <<>>,
              <<Member("node", 2, None), Member("relation", 1, Some("sub")),
                Member("node", 2, Some("stop"))>>, <<>>)
RelSelf == Rec("relation", [id |-> 1], <<>>, <<Member("relation", 1, None)>>, <<>>)
BoundsChild == Rec("bounds", [minlat |-> 500], <<>>, <<>>, <<>>)

Docs ==
    { <<NodeA>>, <<NodeA2>>, <<NodeB>>, <<NodeA, NodeB>>, <<NodeA, NodeNoLon>>, <<NodeNoId>>,
      <<WayA>>, <<NodeA, NodeB, WayA>>, <<NodeA, NodeB, WayA, WayB>>, <<NodeA, WayA>>,
      <<RelA>>, <<RelFwd>>, <<RelFwd, NodeB, RelA>>, <<NodeA, BoundsChild, RelA, WayA>>,
      <<RelSelf>>, <<NodeA, NodeB, WayA, RelA>>, <<WayGap>>, <<NodeGone>> }

-----------------------------------------------------------------------------
(* _import_osm_dom *)

\* session.add(x) of a new object followed by session.commit()
AddAndCommit(s, d, t, element) == Commit(Append(s, element), d, t)

\* _dom_to_node(e): [err, sess, commit, row, new]
DomToNode(s, e) ==
    IF ~Has(e, "id") THEN [err |-> "KeyError", sess |-> s, row |-> 0, new |-> FALSE]
    ELSE
    LET q == FindNode(s, e.attrs.id) IN
    IF q.err # "none" THEN [err |-> q.err, sess |-> s, row |-> 0, new |-> FALSE]
    ELSE
    LET node0 == IF q.row = 0 THEN NewElement("node", e.attrs.id) ELSE s[q.row]
        put(n) == IF q.row = 0 THEN s ELSE [s EXCEPT ![q.row] = n]
    IN
    IF ~Has(e, "lat") THEN [err |-> "KeyError", sess |-> s, row |-> 0, new |-> FALSE]
    ELSE
    LET node1 == [node0 EXCEPT !.latitude = Some(e.attrs.lat)] IN
    IF ~Has(e, "lon") THEN [err |-> "KeyError", sess |-> put(node1), row |-> 0, new |-> FALSE]
    ELSE
    LET node2 == [node1 EXCEPT !.longitude = Some(e.attrs.lon)]
        node3 == DomTagsToAny(e, DomAttrsToAny(e, node2))
    IN [err |-> "none",
        sess |-> IF q.row = 0 THEN Append(s, node3) ELSE [s EXCEPT ![q.row] = node3],
        row |-> IF q.row = 0 THEN Len(s) + 1 ELSE q.row,
        new |-> q.row = 0]

\* The loop of _import_osm_dom leaves on the exception of a handler
Raise(e, s) ==
    /\ pc' = "idle"
    /\ error' = e
    /\ sess' = s
    /\ UNCHANGED <<db, doc, idx, wrow, obj, mpos, imports, pre, made, hist, stubs>>

\* A handler returned after its session.commit()
Done(s, row, new) ==
    /\ db' = Commit(s, db, now)
    /\ sess' = db'
    /\ idx' = idx + 1
    /\ pc' = "records"
    /\ made' = Append(made, [row |-> row, new |-> new])
    /\ wrow' = 0 /\ obj' = None /\ mpos' = 0
    /\ UNCHANGED <<doc, error, imports, pre, hist, stubs>>

AtChild(name) == pc = "records" /\ idx <= Len(doc) /\ doc[idx].name = name

\* import_osm_xml / import_osm_file called with a document
StartImport(d) ==
    /\ pc = "idle"
    /\ imports < MaxImports
    /\ doc' = d
    /\ idx' = 1
    /\ pc' = "records"
    /\ error' = "none"
    /\ imports' = imports + 1
    /\ pre' = db
    /\ made' = <<>>
    /\ hist' = [doc |-> doc, ok |-> imports > 0 /\ error = "none", db |-> db]
    /\ UNCHANGED <<db, sess, wrow, obj, mpos, stubs>>
    /\ tree' = None /\ lastq' = None /\ events' = <<>> /\ got' = None
    /\ UNCHANGED <<now, visited, fetches, remote, other>>

ImportNode ==
    /\ AtChild("node")
    /\ LET r == DomToNode(sess, doc[idx]) IN
       IF r.err = "none" THEN Done(r.sess, r.row, r.new) ELSE Raise(r.err, r.sess)
    /\ UNCHANGED readVars

\* Variant: a node that is already in the way is not appended again
WayNodesAppendOnce(members, node) ==
    IF \E i \in 1..Len(members) : members[i].node = node THEN members
    ELSE Append(members, [node |-> node, position |-> Len(members)])

\* Variant: the ordering list numbers its rows from 1
WayNodesAppendFromOne(members, node) ==
    Append(members, [node |-> node, position |-> Len(members) + 1])

\* way.nodes.append(node): the creator makes an OSMWaysNodes row and the
\* ordering_list gives it the next position (model.py:222-225)
WayNodesAppend(members, node) ==
    Append(members, [node |-> node, position |-> Len(members)])

\* Variant: an nd reference that resolves to no node is skipped
RECURSIVE FindRelatedNodesSkipping(_, _, _)
FindRelatedNodesSkipping(s, members, nds) ==
    IF nds = <<>> THEN [err |-> "none", members |-> members]
    ELSE LET q == FindWayNode(s, Head(nds)) IN
         IF q.err # "none" THEN FindRelatedNodesSkipping(s, members, Tail(nds))
         ELSE FindRelatedNodesSkipping(s, WayNodesAppend(members, q.row), Tail(nds))

\* The loop over the <nd> children of a way (util.py:100-106)
RECURSIVE FindRelatedNodes(_, _, _)
FindRelatedNodes(s, members, nds) ==
    IF nds = <<>> THEN [err |-> "none", members |-> members]
    ELSE LET q == FindWayNode(s, Head(nds)) IN
         IF q.err # "none" THEN [err |-> q.err, members |-> members]
         ELSE FindRelatedNodes(s, WayNodesAppend(members, q.row), Tail(nds))

\* _dom_to_way(e): [err, sess, row, new]
DomToWay(s, e) ==
    IF ~Has(e, "id") THEN [err |-> "KeyError", sess |-> s, row |-> 0, new |-> FALSE]
    ELSE
    LET q == FindWay(s, e.attrs.id) IN
    IF q.err # "none" THEN [err |-> q.err, sess |-> s, row |-> 0, new |-> FALSE]
    ELSE
    LET way0 == IF q.row = 0 THEN NewElement("way", e.attrs.id) ELSE s[q.row]
        put(w) == IF q.row = 0 THEN s ELSE [s EXCEPT ![q.row] = w]
        n == FindRelatedNodes(s, way0.members, e.nds)
        way1 == [way0 EXCEPT !.members = n.members]
    IN
    IF n.err # "none" THEN [err |-> n.err, sess |-> put(way1), row |-> 0, new |-> FALSE]
    ELSE
    LET way2 == DomTagsToAny(e, DomAttrsToAny(e, way1))
    IN [err |-> "none",
        sess |-> IF q.row = 0 THEN Append(s, way2) ELSE [s EXCEPT ![q.row] = way2],
        row |-> IF q.row = 0 THEN Len(s) + 1 ELSE q.row,
        new |-> q.row = 0]

\* Variant: the role of the member is not stored
RelationMembersAppendNoRole(members, element, role) ==
    Append(members, [element |-> element, role |-> "", position |-> Len(members)])

\* relation.members.append((element, role)): the creator makes an
\* OSMRelationsElements row and the ordering_list gives it the next position
\* (model.py:274-280)
RelationMembersAppend(members, element, role) ==
    Append(members, [element |-> element, role |-> role, position |-> Len(members)])

\* "We do not know the member yet, create a stub" (util.py:137-144); None for a
\* type that is none of node, way, relation
Stub(type, ref) ==
    IF type \in {"node", "way", "relation"} THEN Some(NewElement(type, ref)) ELSE None

\* One round of the loop over the <member> children of a relation
\* (util.py:127-149).  s, d: session and committed rows; w, o: the relation
\* (row if persistent, object if new); m: the member.  [err, sess, db, obj]
DomToRelationMember(s, d, t, w, o, m) ==
    LET role == IF m.role = None THEN "" ELSE m.role[1]
        q == FindElement(s, m.type, m.ref)
    IN
    IF q.err # "none" THEN [err |-> q.err, sess |-> s, db |-> d, obj |-> o]
    ELSE IF q.row = 0 /\ Stub(m.type, m.ref) = None
    THEN [err |-> "UnmappedInstanceError", sess |-> s, db |-> d, obj |-> o]
    ELSE
    LET d1 == IF q.row = 0 THEN AddAndCommit(s, d, t, Stub(m.type, m.ref)[1]) ELSE d
        s1 == IF q.row = 0 THEN d1 ELSE s
        element == IF q.row = 0 THEN Len(s) + 1 ELSE q.row
    IN [err |-> "none",
        db |-> d1,
        sess |-> IF w = 0 THEN s1
                 ELSE [s1 EXCEPT ![w].members = RelationMembersAppend(@, element, role)],
        obj |-> IF w = 0
                THEN Some([o[1] EXCEPT !.members = RelationMembersAppend(@, element, role)])
                ELSE o]

\* _dom_to_relation(e) up to its member loop: the id and the lookup
\* (util.py:117-124)
RelationBegin ==
    /\ AtChild("relation")
    /\ LET e == doc[idx] IN
       IF ~Has(e, "id") THEN Raise("KeyError", sess)
       ELSE LET q == FindRelation(sess, e.attrs.id) IN
            IF q.err # "none" THEN Raise(q.err, sess)
            ELSE /\ wrow' = q.row
                 /\ obj' = IF q.row = 0 THEN Some(NewElement("relation", e.attrs.id)) ELSE None
                 /\ mpos' = 1
                 /\ pc' = "members"
                 /\ UNCHANGED <<db, sess, doc, idx, error, imports, pre, made, hist, stubs>>
    /\ UNCHANGED readVars

RelationMember ==
    /\ pc = "members" /\ mpos <= Len(doc[idx].members)
    /\ LET r == DomToRelationMember(sess, db, now, wrow, obj, doc[idx].members[mpos]) IN
       IF r.err # "none"
       THEN /\ pc' = "idle"
            /\ error' = r.err
            /\ UNCHANGED <<db, sess, doc, idx, wrow, obj, mpos, imports, pre, made, hist, stubs>>
       ELSE /\ db' = r.db
            /\ sess' = r.sess
            /\ obj' = r.obj
            /\ mpos' = mpos + 1
            /\ stubs' = IF Len(r.db) > Len(db)
                        THEN stubs \cup {[row |-> Len(r.db),
                                          by |-> <<"relation", doc[idx].attrs.id>>]}
                        ELSE stubs
            /\ UNCHANGED <<pc, doc, idx, wrow, error, imports, pre, made, hist>>
    /\ UNCHANGED readVars

\* _dom_to_relation(e) after its member loop (util.py:151-157)
RelationFinish ==
    /\ pc = "members" /\ mpos > Len(doc[idx].members)
    /\ LET e == doc[idx]
           rel == DomTagsToAny(e, DomAttrsToAny(e, IF wrow = 0 THEN obj[1] ELSE sess[wrow]))
       IN Done(IF wrow = 0 THEN Append(sess, rel) ELSE [sess EXCEPT ![wrow] = rel],
               IF wrow = 0 THEN Len(sess) + 1 ELSE wrow,
               wrow = 0)
    /\ UNCHANGED readVars

ImportWay ==
    /\ AtChild("way")
    /\ LET r == DomToWay(sess, doc[idx]) IN
       IF r.err = "none" THEN Done(r.sess, r.row, r.new) ELSE Raise(r.err, r.sess)
    /\ UNCHANGED readVars

\* Variant: the loop ends at a child that is neither node, way nor relation
SkipChildStopping ==
    /\ pc = "records" /\ idx <= Len(doc)
    /\ doc[idx].name \notin {"node", "way", "relation"}
    /\ idx' = Len(doc) + 1
    /\ made' = Append(made, [row |-> 0, new |-> FALSE])
    /\ UNCHANGED <<db, sess, pc, doc, wrow, obj, mpos, error, imports, pre, hist, stubs>>
    /\ UNCHANGED readVars

\* A child that is neither node, way nor relation: only e.unlink()
SkipChild ==
    /\ pc = "records" /\ idx <= Len(doc)
    /\ doc[idx].name \notin {"node", "way", "relation"}
    /\ idx' = idx + 1
    /\ made' = Append(made, [row |-> 0, new |-> FALSE])
    /\ UNCHANGED <<db, sess, pc, doc, wrow, obj, mpos, error, imports, pre, hist, stubs>>
    /\ UNCHANGED readVars

\* The loop of _import_osm_dom is over: the import returns
EndImport ==
    /\ pc = "records" /\ idx > Len(doc)
    /\ pc' = "idle"
    /\ UNCHANGED <<db, sess, doc, idx, wrow, obj, mpos, error, imports, pre, made, hist, stubs>>
    /\ UNCHANGED readVars

-----------------------------------------------------------------------------
(* The filter expressions of a query (sqlalchemy.sql.elements) *)

\* An ORM column, e.g. OSMNode.latitude
Column(model, name) == [t |-> "AnnotatedColumn", model |-> model, name |-> name]

\* A literal value
BindParameter(value) == [t |-> "BindParameter", value |-> value]

\* A scalar subquery, a function call
Select == [t |-> "Select"]
Function == [t |-> "Function"]

\* left <operator> right; `truth` is what the expression evaluates to on a row
\* when it is not a comparison of a column of the row with a literal
BinaryExpression(left, operator, right, truth) ==
    [t |-> "BinaryExpression", left |-> left, operator |-> operator, right |-> right,
     truth |-> truth]

\* and_(...) / or_(...)
BooleanClauseList(operator, clauses) ==
    [t |-> "BooleanClauseList", operator |-> operator, clauses |-> clauses]

\* not_(...), or any other clause type
UnaryExpression(truth) == [t |-> "UnaryExpression", truth |-> truth]

\* _ops (util.py:202-209, triggers.py:77-84)
Ops == [eq |-> "==", ne |-> "!=", lt |-> "<", gt |-> ">", le |-> "<=", ge |-> ">=",
        and_ |-> "&&", or_ |-> "||"]

\* Variant: the operator of a comparison is passed on as it is
AnalyseClauseRaw(clause, target) ==
    IF clause.t # "BinaryExpression" THEN None
    ELSE IF clause.left.t # "AnnotatedColumn" THEN None
    ELSE IF clause.right.t # "BindParameter" THEN None
    ELSE <<clause.operator, clause.left.name, clause.right.value>>

RECURSIVE AnalyseClause(_, _)
RECURSIVE AnalyseClauses(_, _)

\* Variant: a combinator with a child that is not understood is not understood
AnalyseClauseAllOrNothing(clause, target) ==
    IF clause.t = "BinaryExpression" THEN
        IF clause.left.t # "AnnotatedColumn" THEN None
        ELSE IF clause.left.model # target THEN None
        ELSE IF clause.right.t # "BindParameter" THEN None
        ELSE IF clause.operator \notin DOMAIN Ops THEN None
        ELSE <<Ops[clause.operator], clause.left.name, clause.right.value>>
    ELSE IF clause.t = "BooleanClauseList" THEN
        IF clause.operator \notin DOMAIN Ops THEN None
        ELSE IF Len(AnalyseClauses(clause.clauses, target)) < Len(clause.clauses) THEN None
        ELSE <<Ops[clause.operator], AnalyseClauses(clause.clauses, target)>>
    ELSE None

\* _analyse_clause(clause, target) (util.py:211-278, triggers.py:87-154): a
\* tuple in polish notation, or None
AnalyseClause(clause, target) ==
    IF clause.t = "BinaryExpression" THEN
        IF clause.left.t # "AnnotatedColumn" THEN None
        ELSE IF clause.left.model # target THEN None
        ELSE IF clause.right.t # "BindParameter" THEN None
        ELSE IF clause.operator \notin DOMAIN Ops THEN None
        ELSE <<Ops[clause.operator], clause.left.name, clause.right.value>>
    ELSE IF clause.t = "BooleanClauseList" THEN
        IF clause.operator \notin DOMAIN Ops THEN None
        ELSE <<Ops[clause.operator], AnalyseClauses(clause.clauses, target)>>
    ELSE None

\* Variant: the results are collected in reverse
RECURSIVE AnalyseClausesReversed(_, _)
AnalyseClausesReversed(clauses, target) ==
    IF clauses = <<>> THEN <<>>
    ELSE LET res == AnalyseClause(Head(clauses), target) IN
         IF res # None THEN AnalyseClausesReversed(Tail(clauses), target) \o <<res>>
         ELSE AnalyseClausesReversed(Tail(clauses), target)

\* The loop over clause.clauses: the results that are not None, in order
AnalyseClauses(clauses, target) ==
    IF clauses = <<>> THEN <<>>
    ELSE LET res == AnalyseClause(Head(clauses), target) IN
         IF res # None THEN <<res>> \o AnalyseClauses(Tail(clauses), target)
         ELSE AnalyseClauses(Tail(clauses), target)

\* Variant: every mapped class counts as one of our models
OurModelsAndUser == {"OSMNode", "OSMWay", "OSMRelation", "OSMElement", "User"}

\* osmalchemy.node, .way, .relation, .element (triggers.py:64-65), by __name__
OurModels == {"OSMNode", "OSMWay", "OSMRelation", "OSMElement"}

\* Variant: the hook does not record the query it is called for
QueryCompilingUnrecorded(v, query) ==
    IF query.id \in v THEN [visited |-> v, tree |-> None]
    ELSE IF query.types \cap OurModels = {} THEN [visited |-> v, tree |-> None]
    ELSE IF query.whereclause = None THEN [visited |-> v, tree |-> None]
    ELSE [visited |-> v,
          tree |-> Some([target \in OurModels \cap query.types |->
                            AnalyseClause(query.whereclause[1], target)])]

\* Variant: the hook does not look at the queries it has seen
QueryCompilingAgain(v, query) ==
    IF query.types \cap OurModels = {} THEN [visited |-> v \cup {query.id}, tree |-> None]
    ELSE IF query.whereclause = None THEN [visited |-> v \cup {query.id}, tree |-> None]
    ELSE [visited |-> v \cup {query.id},
          tree |-> Some([target \in OurModels \cap query.types |->
                            AnalyseClause(query.whereclause[1], target)])]

\* _query_compiling(query) (triggers.py:51-158): [visited, tree]; tree is the
\* local dict, None when the hook returned before building it
QueryCompiling(v, query) ==
    IF query.id \in v THEN [visited |-> v, tree |-> None]
    ELSE IF query.types \cap OurModels = {} THEN [visited |-> v \cup {query.id}, tree |-> None]
    ELSE IF query.whereclause = None THEN [visited |-> v \cup {query.id}, tree |-> None]
    ELSE [visited |-> v \cup {query.id},
          tree |-> Some([target \in OurModels \cap query.types |->
                            AnalyseClause(query.whereclause[1], target)])]

\* maxage of _generate_triggers, in ticks of `now` (triggers.py:42)
maxage == 1

\* The mapped class of a row
ClassOf(type) ==
    CASE type = "node" -> "OSMNode" [] type = "way" -> "OSMWay" [] OTHER -> "OSMRelation"

Compare(operator, a, b) ==
    CASE operator = "eq" -> a = b [] operator = "ne" -> a # b
      [] operator = "lt" -> a < b [] operator = "gt" -> a > b
      [] operator = "le" -> a <= b [] OTHER -> a >= b

\* The value of a numeric column of a row, None for NULL
ColumnValue(row, name) == IF name = "id" THEN Some(row.id) ELSE row[name]

\* Whether the store selects the row for the filter
RECURSIVE Selects(_, _)
Selects(clause, row) ==
    IF clause.t = "BooleanClauseList" THEN
        IF clause.operator = "and_"
        THEN \A i \in 1..Len(clause.clauses) : Selects(clause.clauses[i], row)
        ELSE \E i \in 1..Len(clause.clauses) : Selects(clause.clauses[i], row)
    ELSE IF /\ clause.t = "BinaryExpression"
            /\ clause.left.t = "AnnotatedColumn" /\ clause.right.t = "BindParameter"
            /\ clause.operator \in {"eq", "ne", "lt", "gt", "le", "ge"}
            /\ clause.left.model \in {ClassOf(row.type), "OSMElement"}
            /\ clause.left.name \in {"id", "latitude", "longitude", "version", "changeset", "uid"}
    THEN /\ ColumnValue(row, clause.left.name) # None
         /\ Compare(clause.operator, ColumnValue(row, clause.left.name)[1], clause.right.value)
    ELSE clause.truth

\* The rows a query is answered with: those of the queried classes the filter selects
Result(s, query) ==
    {r \in 1..Len(s) :
        /\ query.types \cap {ClassOf(s[r].type), "OSMElement"} # {}
        /\ query.whereclause # None => Selects(query.whereclause[1], s[r])}

\* The filters and queries of the application
LatLon ==
    BooleanClauseList("and_",
        <<BinaryExpression(Column("OSMNode", "latitude"), "ge", BindParameter(500), TRUE),
          BinaryExpression(Column("OSMNode", "longitude"), "le", BindParameter(72), TRUE)>>)
IdIsOne == BinaryExpression(Column("OSMNode", "id"), "eq", BindParameter(1), TRUE)
WayIdIsOne == BinaryExpression(Column("OSMWay", "id"), "eq", BindParameter(1), TRUE)
InSubquery == BinaryExpression(Column("OSMNode", "id"), "eq", Select, TRUE)
Like == BinaryExpression(Column("OSMNode", "user"), "like_op", BindParameter(0), FALSE)
OnFunction == BinaryExpression(Function, "eq", BindParameter(1), TRUE)
AndCompare == BinaryExpression(Column("OSMNode", "id"), "and_", BindParameter(1), TRUE)
ColumnRight ==
    BinaryExpression(Column("OSMNode", "latitude"), "eq", Column("OSMNode", "longitude"), FALSE)
Mixed ==
    BooleanClauseList("or_",
        <<InSubquery, IdIsOne,
          BooleanClauseList("and_", <<UnaryExpression(TRUE), WayIdIsOne, LatLon>>)>>)

Filters ==
    {LatLon, IdIsOne, WayIdIsOne, InSubquery, Like, OnFunction, Mixed, AndCompare, ColumnRight}

QueryIds == 1..MaxQueries

Queries ==
    [id : QueryIds,
     types : {{"OSMNode"}, {"OSMWay"}, {"OSMRelation"}, {"OSMElement"}, {"OSMNode", "OSMWay"},
              {"User"}},
     whereclause : {None} \cup {Some(f) : f \in Filters}]

ReadQueries ==
    [id : QueryIds, types : {{"OSMNode"}, {"OSMWay"}}, whereclause : {None, Some(IdIsOne)}]

\* Whether the row is older than maxage at time t
Stale(row, t) == row.osmalchemy_updated # None /\ t - row.osmalchemy_updated[1] > maxage

\* The application runs a query: the before_compile event calls the hook
\* (triggers.py:51), which returns without a call of the service or of the
\* session, then the store answers.  No event is listened to for the rows
\* that are loaded, so nothing follows the execution.
Read(query) ==
    /\ pc = "idle"
    /\ LET h == QueryCompiling(visited, query) IN
       /\ visited' = h.visited
       /\ tree' = h.tree
    /\ lastq' = Some([query |-> query, rows |-> Result(sess, query)])
    /\ events' = <<[e |-> "before_compile", row |-> 0], [e |-> "execute", row |-> 0]>>
    /\ got' = None
    /\ UNCHANGED <<now, fetches, remote, other>>
    /\ UNCHANGED importVars

\* _get_single_element_by_id(api, type, id, recurse_down) (online.py:48-64),
\* called by the application: api.Get raises when the service does not answer
GetSingleElementById(type, id, recurse_down) ==
    /\ pc = "idle"
    /\ Len(fetches) < MaxFetches
    /\ LET q == [type |-> type, id |-> id,
                 recurse |-> IF recurse_down THEN "(._;>;);" ELSE ""] IN
       /\ fetches' = Append(fetches, q)
       /\ got' = IF remote = "up" THEN Some("xml") ELSE Some("raised")
    /\ tree' = None /\ lastq' = None /\ events' = <<>>
    /\ UNCHANGED <<now, visited, remote, other>>
    /\ UNCHANGED importVars

\* The Overpass service goes away or comes back
RemoteChange ==
    /\ pc = "idle"
    /\ remote' = IF remote = "up" THEN "down" ELSE "up"
    /\ tree' = None /\ lastq' = None /\ events' = <<>> /\ got' = None
    /\ UNCHANGED <<now, visited, fetches, other>>
    /\ UNCHANGED importVars

\* Time passes
Tick ==
    /\ pc = "idle"
    /\ now < MaxTime
    /\ now' = now + 1
    /\ tree' = None /\ lastq' = None /\ events' = <<>> /\ got' = None
    /\ UNCHANGED <<visited, fetches, remote, other>>
    /\ UNCHANGED importVars

-----------------------------------------------------------------------------
(* A second session importing a node into the same store *)

\* The second session's _dom_to_node(e) up to its lookup (util.py:69-76): the
\* query sees the rows that are committed
OtherLookup(e) ==
    /\ other.pc = "idle"
    /\ LET q == FindNode(db, e.attrs.id) IN
       other' = IF q.err # "none"
                THEN [pc |-> "done", e |-> Some(e), row |-> 0, err |-> q.err]
                ELSE [pc |-> "found", e |-> Some(e), row |-> q.row, err |-> "none"]
    /\ UNCHANGED <<now, visited, tree, fetches, got, remote, lastq, events>>
    /\ UNCHANGED importVars

\* The second session's _dom_to_node(e) from its assignments to its
\* session.add and session.commit (util.py:78-88): a node that was not found is
\* INSERTed, one that was found is UPDATEd; nothing rejects a second row with
\* the key (model.py:112-113 attaches no constraint to the table)
OtherCommit ==
    /\ other.pc = "found"
    /\ LET e == other.e[1]
           node0 == IF other.row = 0 THEN NewElement("node", e.attrs.id) ELSE db[other.row]
           node2 == [node0 EXCEPT !.latitude = Some(e.attrs.lat),
                                  !.longitude = Some(e.attrs.lon)]
           node3 == DomTagsToAny(e, DomAttrsToAny(e, node2))
           row == IF other.row = 0 THEN Len(db) + 1 ELSE other.row
           d1 == Commit(IF other.row = 0 THEN Append(db, node3)
                        ELSE [db EXCEPT ![other.row] = node3], db, now)
       IN /\ db' = d1
          /\ sess' = IF other.row = 0 THEN Append(sess, d1[row])
                     ELSE [sess EXCEPT ![row] = d1[row]]
          /\ other' = [other EXCEPT !.pc = "done", !.row = row]
    /\ UNCHANGED <<pc, doc, idx, wrow, obj, mpos, error, imports, pre, made, hist, stubs>>
    /\ UNCHANGED <<now, visited, tree, fetches, got, remote, lastq, events>>

-----------------------------------------------------------------------------
(* The application assigning member lists (tests/model.py) *)

\* The longest list the application assigns
MaxAssign == 2

\* The lists of stored elements of the given kinds the application assigns:
\* the first n in row order, the last n in reverse row order, and one element
\* n times, for n up to MaxAssign
ListsOf(s, kinds) ==
    LET rows == {r \in 1..Len(s) : s[r].type \in kinds}
        k == Cardinality(rows)
        asc == [i \in 1..k |-> CHOOSE r \in rows : Cardinality({q \in rows : q < r}) = i - 1]
        desc == [i \in 1..k |-> asc[k + 1 - i]]
        take(l, n) == SubSeq(l, 1, IF n < k THEN n ELSE k)
    IN UNION {{take(asc, n), take(desc, n)} \cup {[i \in 1..n |-> r] : r \in {asc[i] : i \in 1..(IF k > 0 THEN 1 ELSE 0)}}
              : n \in 0..MaxAssign}

\* way.nodes = [...]: the association proxy empties the collection and
\* appends a new OSMWaysNodes row per value, which the ordering_list numbers
\* (model.py:222-225)
RECURSIVE WayNodesAssign(_, _)
WayNodesAssign(members, nodes) ==
    IF nodes = <<>> THEN members
    ELSE WayNodesAssign(WayNodesAppend(members, Head(nodes)), Tail(nodes))

\* relation.members = [(element, role), ...] (model.py:274-280)
RECURSIVE RelationMembersAssign(_, _)
RelationMembersAssign(members, pairs) ==
    IF pairs = <<>> THEN members
    ELSE RelationMembersAssign(RelationMembersAppend(members, Head(pairs), "")
                               , Tail(pairs))

\* The application assigns the node list of a stored way and commits
\* (tests/model.py:128-139)
AssignWayNodes(w, nodes) ==
    /\ pc = "idle"
    /\ w \in 1..Len(sess) /\ sess[w].type = "way"
    /\ db' = Commit([sess EXCEPT ![w].members = WayNodesAssign(<<>>, nodes)], db, now)
    /\ sess' = db'
    /\ tree' = None /\ lastq' = None /\ events' = <<>> /\ got' = None
    /\ UNCHANGED <<pc, doc, idx, wrow, obj, mpos, error, imports, pre, made, hist, stubs>>
    /\ UNCHANGED <<now, visited, fetches, remote, other>>

\* The application assigns the member list of a stored relation, every role
\* u"", and commits (tests/model.py:212-223)
AssignRelationMembers(r, elements) ==
    /\ pc = "idle"
    /\ r \in 1..Len(sess) /\ sess[r].type = "relation"
    /\ db' = Commit([sess EXCEPT ![r].members = RelationMembersAssign(<<>>, elements)], db, now)
    /\ sess' = db'
    /\ tree' = None /\ lastq' = None /\ events' = <<>> /\ got' = None
    /\ UNCHANGED <<pc, doc, idx, wrow, obj, mpos, error, imports, pre, made, hist, stubs>>
    /\ UNCHANGED <<now, visited, fetches, remote, other>>

-----------------------------------------------------------------------------

Init ==
    /\ db = <<>> /\ sess = <<>>
    /\ now = 0
    /\ pc = "idle"
    /\ doc = <<>> /\ idx = 0
    /\ wrow = 0 /\ obj = None /\ mpos = 0
    /\ error = "none"
    /\ imports = 0
    /\ pre = <<>> /\ made = <<>>
    /\ hist = [doc |-> <<>>, ok |-> FALSE, db |-> <<>>]
    /\ stubs = {}
    /\ visited = {} /\ tree = None /\ fetches = <<>>
    /\ got = None /\ remote = "up"
    /\ lastq = None
    /\ events = <<>>
    /\ other = [pc |-> "idle", e |-> None, row |-> 0, err |-> "none"]

Next ==
    \/ \E d \in Docs : StartImport(d)
    \/ ImportNode
    \/ ImportWay
    \/ RelationBegin
    \/ RelationMember
    \/ RelationFinish
    \/ SkipChild
    \/ EndImport

Spec == Init /\ [][Next]_vars

\* Imports of a few documents, the clock, and the application's reads
ReadDocs == { <<NodeA, BoundsChild, RelA, WayA>>, <<NodeA, NodeB, WayA>> }

NextRead ==
    \/ \E d \in ReadDocs : StartImport(d)
    \/ ImportNode
    \/ ImportWay
    \/ RelationBegin
    \/ RelationMember
    \/ RelationFinish
    \/ SkipChild
    \/ EndImport
    \/ Tick
    \/ RemoteChange
    \/ \E query \in ReadQueries : Read(query)
    \/ \E recurse_down \in BOOLEAN : GetSingleElementById("way", 1, recurse_down)

SpecRead == Init /\ [][NextRead]_vars

\* The before_compile hook on the queries of the application, the store empty
NextQuery == \E query \in Queries : Read(query)

SpecQuery == Init /\ [][NextQuery]_vars

\* Queries of every kind on a store that holds nodes of several ages
HookDocs == { <<NodeA, NodeB>> }

HookQueries ==
    [id : QueryIds, types : {{"OSMNode"}, {"OSMElement"}, {"User"}},
     whereclause : {None, Some(IdIsOne), Some(Mixed)}]

NextHook ==
    \/ \E d \in HookDocs : StartImport(d)
    \/ ImportNode
    \/ EndImport
    \/ Tick
    \/ \E query \in HookQueries : Read(query)

SpecHook == Init /\ [][NextHook]_vars

\* Two sessions importing node records into one store, every interleaving of
\* the second session's lookup and commit with the first session's records
RaceDocs == { <<NodeA>>, <<NodeB>>, <<NodeA, NodeB>>, <<NodeA2>> }

NextRace ==
    \/ \E d \in RaceDocs : StartImport(d)
    \/ ImportNode
    \/ EndImport
    \/ \E e \in {NodeA, NodeB} : OtherLookup(e)
    \/ OtherCommit

SpecRace == Init /\ [][NextRace]_vars

\* Imports, and the application assigning member lists in between
AssignDocs == { <<NodeA, BoundsChild, NodeB, WayA, RelA>> }

NextAssign ==
    \/ \E d \in AssignDocs : StartImport(d)
    \/ ImportNode
    \/ ImportWay
    \/ RelationBegin
    \/ RelationMember
    \/ RelationFinish
    \/ SkipChild
    \/ EndImport
    \/ \E w \in 1..Len(sess) : \E nodes \in ListsOf(sess, {"node"}) : AssignWayNodes(w, nodes)
    \/ \E r \in 1..Len(sess) : \E elements \in ListsOf(sess, {"node", "way"}) :
          AssignRelationMembers(r, elements)

SpecAssign == Init /\ [][NextAssign]_vars

-----------------------------------------------------------------------------
(* Reading the store back *)

\* A relationship loaded with order_by="...position" (model.py:222, 275)
OrderByPosition(ms) ==
    LET rank(i) == Cardinality({j \in 1..Len(ms) :
                       \/ ms[j].position < ms[i].position
                       \/ ms[j].position = ms[i].position /\ j < i}) + 1
    IN [k \in 1..Len(ms) |-> ms[CHOOSE i \in 1..Len(ms) : rank(i) = k]]

\* way.nodes of the way in row w, as element_ids (model.py:224-225)
WayNodes(d, w) ==
    LET ms == OrderByPosition(d[w].members) IN [k \in 1..Len(ms) |-> ms[k].node]

\* relation.members of the relation in row r, as (element_id, role) (model.py:278-280)
RelationMembers(d, r) ==
    LET ms == OrderByPosition(d[r].members) IN [k \in 1..Len(ms) |-> <<ms[k].element, ms[k].role>>]

MemberList(d, r) == IF d[r].type = "way" THEN WayNodes(d, r) ELSE RelationMembers(d, r)

Count(d, type) == Cardinality({r \in 1..Len(d) : d[r].type = type})

\* The child the loop of _import_osm_dom has just handled
JustHandled(name) == pc = "records" /\ idx > 1 /\ doc[idx - 1].name = name

-----------------------------------------------------------------------------
(* Claims *)

\* C1: importing the same document twice in a row leaves, after the second
\* import, the same number of nodes, ways and relations and the same member
\* list for every way and relation as after the first import.
C1_ReimportIdempotent ==
    (pc = "idle" /\ error = "none" /\ hist.ok /\ hist.doc = doc) =>
        /\ \A t \in Kinds : Count(db, t) = Count(hist.db, t)
        /\ \A r \in 1..Len(hist.db) :
              db[r].type \in {"way", "relation"} => MemberList(db, r) = MemberList(hist.db, r)

\* C2: after a way record is imported for a way that was not in the store, the
\* i-th node of the stored way is the node whose id is the i-th nd reference,
\* a repeated reference occupying each of its positions.
C2_WayNodesFollowRefs ==
    (JustHandled("way") /\ made[idx - 1].new) =>
        LET w == made[idx - 1].row
            nds == doc[idx - 1].nds
        IN /\ Len(WayNodes(db, w)) = Len(nds)
           /\ \A i \in 1..Len(nds) :
                 Key(db[WayNodes(db, w)[i]]) = <<"node", nds[i]>>

C2_Witness ==
    /\ JustHandled("way") /\ made[idx - 1].new
    /\ \E i, j \in 1..Len(doc[idx - 1].nds) :
          i < j /\ doc[idx - 1].nds[i] = doc[idx - 1].nds[j]

\* C3: a stub made for a relation member that was neither stored nor declared
\* is the entity a later record for the same (kind, id) updates: after that
\* record exactly one element has the key, it is the stub's row, it carries
\* the record's data, and every relation member with that key is that row.
C3_StubHydratedInPlace ==
    \A k \in Kinds :
        (JustHandled(k) /\ Has(doc[idx - 1], "id")) =>
            \A st \in stubs :
                (Key(db[st.row]) = <<k, doc[idx - 1].attrs.id>> /\ st.by # Key(db[st.row])) =>
                    /\ made[idx - 1] = [row |-> st.row, new |-> FALSE]
                    /\ Lookup(db, k, doc[idx - 1].attrs.id) = {st.row}
                    /\ db[st.row].tags = TagsDict(doc[idx - 1].tags)
                    /\ k = "node" => db[st.row].latitude = Some(doc[idx - 1].attrs.lat)
                    /\ \A r \in 1..Len(db) :
                          db[r].type = "relation" =>
                              \A i \in 1..Len(db[r].members) :
                                  Key(db[db[r].members[i].element]) = Key(db[st.row])
                                      => db[r].members[i].element = st.row

C3_Witness ==
    /\ JustHandled("node")
    /\ \E st \in stubs :
          /\ Key(db[st.row]) = <<"node", doc[idx - 1].attrs.id>>
          /\ made[idx - 1].row = st.row
          /\ \E r \in 1..Len(db) : \E i \in 1..Len(db[r].members) :
                db[r].type = "relation" /\ db[r].members[i].element = st.row

\* C4: after any sequence of imports no two stored elements have the same
\* (kind, external id).
C4_UniqueKeys ==
    \A r1, r2 \in 1..Len(db) : Key(db[r1]) = Key(db[r2]) => r1 = r2

\* C5: when an import fails on a malformed record, the store is as it was
\* before the import began.
C5_FailedImportRollsBack ==
    (pc = "idle" /\ error # "none") => db = pre

\* C6: a way record with an nd reference to a node that is not in the store
\* ends in an error, and neither a node for the missing id nor the way (new or
\* changed) is written.
C6_UnresolvedNodeFails ==
    [][ (/\ AtChild("way") /\ Has(doc[idx], "id")
         /\ \E i \in 1..Len(doc[idx].nds) : Lookup(sess, "node", doc[idx].nds[i]) = {})
        => (/\ pc' = "idle" /\ error' = "NoResultFound"
            /\ db' = db
            /\ \E i \in 1..Len(doc[idx].nds) : Lookup(db', "node", doc[idx].nds[i]) = {}) ]_vars

C6_Witness ==
    /\ pc = "idle" /\ error = "NoResultFound"
    /\ doc[idx].name = "way"
    /\ Lookup(db, "node", doc[idx].nds[1]) # {}
    /\ \E i \in 1..Len(doc[idx].nds) : Lookup(db, "node", doc[idx].nds[i]) = {}

\* C7: two way records that reference the same node id leave exactly one
\* stored node with that id, and it is in each way's node list at the
\* positions of that way's own nd references.
C7_SharedNodeStoredOnce ==
    \A j, k \in 1..(idx - 1) :
        (/\ pc = "records" /\ j < k
         /\ doc[j].name = "way" /\ doc[k].name = "way"
         /\ made[j].new /\ made[k].new
         /\ \A m \in (j + 1)..(idx - 1) :
               doc[m].name = "way" => doc[m].attrs.id # doc[j].attrs.id /\ (m = k \/ doc[m].attrs.id # doc[k].attrs.id))
        => \A x \in {doc[j].nds[i] : i \in 1..Len(doc[j].nds)}
                     \cap {doc[k].nds[i] : i \in 1..Len(doc[k].nds)} :
              /\ Cardinality(Lookup(db, "node", x)) = 1
              /\ \A c \in {j, k} : \A i \in 1..Len(doc[c].nds) :
                    /\ Len(WayNodes(db, made[c].row)) = Len(doc[c].nds)
                    /\ doc[c].nds[i] = x => {WayNodes(db, made[c].row)[i]} = Lookup(db, "node", x)
                    /\ doc[c].nds[i] # x => WayNodes(db, made[c].row)[i] \notin Lookup(db, "node", x)

C7_Witness ==
    /\ pc = "records"
    /\ \E j, k \in 1..(idx - 1) :
          /\ j < k /\ doc[j].name = "way" /\ doc[k].name = "way"
          /\ made[j].new /\ made[k].new
          /\ \E a \in 1..Len(doc[j].nds) : \E b \in 1..Len(doc[k].nds) :
                doc[j].nds[a] = doc[k].nds[b] /\ a # b

\* The calls of api.Get made for a (kind, external id)
FetchesFor(f, key) == Cardinality({i \in 1..Len(f) : <<f[i].type, f[i].id>> = key})

\* C8: a read of an element older than maxage issues exactly one remote fetch
\* for its (kind, external id) and, the service answering, leaves its
\* osmalchemy_updated not earlier than the time of the read; a read of an
\* element that is not older than maxage issues none.
C8_StaleReadFetchesOnce ==
    [][ \A query \in ReadQueries :
          Read(query) =>
            \A r \in Result(sess, query) :
                IF Stale(sess[r], now)
                THEN /\ FetchesFor(fetches', Key(sess[r])) = FetchesFor(fetches, Key(sess[r])) + 1
                     /\ remote = "up" => sess'[r].osmalchemy_updated[1] >= now
                ELSE FetchesFor(fetches', Key(sess[r])) = FetchesFor(fetches, Key(sess[r])) ]_vars

AnalysedLatLon ==
    /\ lastq # None /\ tree # None
    /\ lastq[1].query.whereclause = Some(LatLon)
    /\ "OSMNode" \in lastq[1].query.types

\* C10 as stated: the filter analyses to the operator followed directly by
\* its analysed children, (&&, (>=, latitude, 50.0), (<=, longitude, 7.2)).
C10_LatLonFlat ==
    AnalysedLatLon =>
        tree[1]["OSMNode"] = <<"&&", <<">=", "latitude", 500>>, <<"<=", "longitude", 72>>>>

\* C10 amended: the filter analyses to the pair of the operator and the list
\* of its analysed children in filter order,
\* (&&, [(>=, latitude, 50.0), (<=, longitude, 7.2)]).
C10_LatLonPair ==
    AnalysedLatLon =>
        tree[1]["OSMNode"] = <<"&&", << <<">=", "latitude", 500>>, <<"<=", "longitude", 72>> >> >>

C10_Witness == AnalysedLatLon /\ lastq[1].query.types = {"OSMNode"}

\* Whether x is a canonical expression: a triple (op, field, value) or a pair
\* (op, [children]) whose children are canonical, op being a symbol of the
\* operator table (which symbols a triple may carry is the subject of C24)
RECURSIVE IsCanonical(_)
IsCanonical(x) ==
    \/ /\ Len(x) = 3
       /\ x[1] \in {Ops[o] : o \in DOMAIN Ops}
       /\ x[2] \in {"id", "latitude", "longitude"}
       /\ x[3] \in Int
    \/ /\ Len(x) = 2
       /\ x[1] \in {"&&", "||"}
       /\ \A i \in 1..Len(x[2]) : IsCanonical(x[2][i])

\* C11: whatever mix of supported and unsupported shapes the filter of a query
\* holds, the hook returns and what the analysis gives for each queried model
\* is either absent (None) or a canonical expression.
C11_AnalyserTotal ==
    (lastq # None /\ tree # None) =>
        \A target \in DOMAIN tree[1] :
            tree[1][target] = None \/ IsCanonical(tree[1][target])

\* The filter with a subquery comparison, an unknown clause type and supported
\* comparisons was analysed to a partial expression, the one with an operator
\* outside _ops to nothing
C11_Witness ==
    /\ lastq # None /\ tree # None
    /\ lastq[1].query.types = {"OSMNode"}
    /\ \/ /\ lastq[1].query.whereclause = Some(Mixed)
          /\ tree[1]["OSMNode"] =
                <<"||", << <<"==", "id", 1>>,
                           <<"&&", << <<"&&", << <<">=", "latitude", 500>>,
                                                <<"<=", "longitude", 72>> >> >> >> >> >> >>

\* C12: when a second session imports a node whose key was not in the store at
\* its lookup while the first session imports a record for the same key, both
\* finish without an error and the store holds exactly one element for the key.
C12_RaceLeavesOneElement ==
    (/\ other.pc = "done"
     /\ pc = "records" /\ idx > 1
     /\ doc[idx - 1].name = "node" /\ doc[idx - 1].attrs.id = other.e[1].attrs.id
     /\ Lookup(pre, "node", other.e[1].attrs.id) = {})
    => /\ other.err = "none" /\ error = "none"
       /\ Cardinality(Lookup(db, "node", other.e[1].attrs.id)) = 1

\* C13: after a relation record is imported for a relation that was not in the
\* store, the i-th stored member is the element with the kind and id of the
\* i-th member entry, with that entry's role, "" when it has no role attribute.
C13_RelationMembersFollowEntries ==
    (JustHandled("relation") /\ made[idx - 1].new) =>
        LET r == made[idx - 1].row
            ms == doc[idx - 1].members
        IN /\ Len(RelationMembers(db, r)) = Len(ms)
           /\ \A i \in 1..Len(ms) :
                 /\ Key(db[RelationMembers(db, r)[i][1]]) = <<ms[i].type, ms[i].ref>>
                 /\ RelationMembers(db, r)[i][2] = IF ms[i].role = None THEN "" ELSE ms[i].role[1]

C13_Witness ==
    /\ JustHandled("relation") /\ made[idx - 1].new
    /\ \E i, j \in 1..Len(doc[idx - 1].members) :
          /\ doc[idx - 1].members[i].role = None
          /\ doc[idx - 1].members[j].role # None
          /\ RelationMembers(db, made[idx - 1].row)[i][2] = ""
          /\ db[RelationMembers(db, made[idx - 1].row)[i][1]].type = "way"

\* C14: in every stored way and relation the persisted positions of the
\* members are 0..n-1 in the order the members were assigned or appended, and
\* the container read back from the store has the members in that order.
C14_PositionsContiguous ==
    \A r \in 1..Len(db) :
        db[r].type \in {"way", "relation"} =>
            /\ \A i \in 1..Len(db[r].members) : db[r].members[i].position = i - 1
            /\ Len(MemberList(db, r)) = Len(db[r].members)
            /\ \A i \in 1..Len(db[r].members) :
                  MemberList(db, r)[i] =
                      IF db[r].type = "way" THEN db[r].members[i].node
                      ELSE <<db[r].members[i].element, db[r].members[i].role>>

\* A way whose list was assigned and then appended to by an import, and a
\* relation with an assigned list
C14_Witness ==
    \E r, q \in 1..Len(db) :
        /\ db[r].type = "way" /\ Len(db[r].members) = MaxAssign + 3
        /\ db[r].members[1].node # db[r].members[MaxAssign + 1].node
        /\ db[q].type = "relation" /\ Len(db[q].members) = MaxAssign
        /\ db[db[q].members[1].element].type = "way"

\* C15: no step of an import removes an element (every stored row keeps its
\* place and its (kind, external id), so the set of keys only grows), and a
\* record that reports its element invisible leaves it stored with
\* visible = false.
C15_NeverRemoved ==
    [][ /\ Len(db') >= Len(db)
        /\ \A r \in 1..Len(db) : Key(db'[r]) = Key(db[r])
        /\ (/\ pc' = "records" /\ idx' > 1 /\ idx' = idx + 1
            /\ doc[idx].name \in Kinds
            /\ Has(doc[idx], "visible") /\ doc[idx].attrs.visible = "false")
           => (/\ made'[idx].row \in 1..Len(db')
               /\ Key(db'[made'[idx].row]) = <<doc[idx].name, doc[idx].attrs.id>>
               /\ db'[made'[idx].row].visible = Some(FALSE)) ]_vars

\* A stored, visible node was just re-imported from a record reporting it
\* invisible
C15_Witness ==
    /\ JustHandled("node")
    /\ Has(doc[idx - 1], "visible") /\ doc[idx - 1].attrs.visible = "false"
    /\ ~made[idx - 1].new /\ made[idx - 1].row <= Len(pre)
    /\ pre[made[idx - 1].row].visible = Some(TRUE)
    /\ db[made[idx - 1].row].visible = Some(FALSE)

\* The key/value pairs of a tags mapping
Pairs(tags) == {<<k, tags[k]>> : k \in DOMAIN tags}

FreshStubs ==
    {st.row : st \in {x \in stubs : x.row > Len(pre) /\ \A i \in 1..Len(made) : made[i].row # x.row}}

\* C17: a stub has only its kind and external id set: latitude, longitude,
\* version, changeset, user, uid, visible and timestamp are all null until a
\* later import hydrates it, for a stub of every kind.
C17_StubHasOnlyKey ==
    \A r \in FreshStubs :
        /\ db[r].latitude = None /\ db[r].longitude = None
        /\ db[r].version = None /\ db[r].changeset = None
        /\ db[r].user = None /\ db[r].uid = None
        /\ db[r].visible = None /\ db[r].timestamp = None

\* The member list of the relation whose record is being imported, and the
\* entries this record has appended to it so far
CurrentMembers == IF wrow = 0 THEN obj[1].members ELSE sess[wrow].members
Appended(i) == CurrentMembers[Len(CurrentMembers) - (mpos - 1) + i]

\* C18: within one relation record, member entries that reference the same
\* (kind, id), unknown before the record, share one stub: one element exists
\* for the key and all those entries refer to it.
C18_RepeatedReferenceSharesStub ==
    pc = "members" =>
        \A i, j \in 1..(mpos - 1) :
            (/\ i < j
             /\ doc[idx].members[i].type = doc[idx].members[j].type
             /\ doc[idx].members[i].ref = doc[idx].members[j].ref
             /\ Appended(i).element \in FreshStubs)
            => /\ Appended(j).element = Appended(i).element
               /\ Lookup(db, doc[idx].members[i].type, doc[idx].members[i].ref)
                     = {Appended(i).element}

C18_Witness ==
    /\ pc = "members" /\ mpos > Len(doc[idx].members)
    /\ \E i, j \in 1..(mpos - 1) :
          /\ i < j
          /\ doc[idx].members[i].ref = doc[idx].members[j].ref
          /\ doc[idx].members[i].type = doc[idx].members[j].type
          /\ Appended(i).element \in FreshStubs
          /\ Appended(j).role # Appended(i).role

\* C19: while a way or relation record is being imported, no step that does
\* not complete the record writes that way or relation to the store: its
\* stored row, if it has one, stays as it was, and no row with members appears
\* for its key; also when the relation is already stored and a member needs a
\* stub.
C19_NoPartialWrite ==
    [][ (/\ pc \in {"records", "members"} /\ idx <= Len(doc)
         /\ doc[idx].name \in {"way", "relation"} /\ Has(doc[idx], "id")
         /\ pc' = "members" \/ (pc' = "idle" /\ error' # "none"))
        => /\ \A r \in 1..Len(db) :
                 Key(db[r]) = <<doc[idx].name, doc[idx].attrs.id>> => db'[r] = db[r]
           /\ \A r \in (Len(db) + 1)..Len(db') :
                 Key(db'[r]) = <<doc[idx].name, doc[idx].attrs.id>> => db'[r].members = <<>> ]_vars

\* C20: after every imported record, whether it created the element, hydrated
\* a stub or carried the data already stored, the element's osmalchemy_updated
\* is not earlier than the time the import started.
C20_ImportSetsUpdated ==
    \A k \in Kinds :
        JustHandled(k) =>
            /\ db[made[idx - 1].row].osmalchemy_updated # None
            /\ db[made[idx - 1].row].osmalchemy_updated[1] >= now

\* The value a metadata field of the record stands for, None when the record
\* does not carry it
RecordField(e, f) ==
    IF ~Has(e, f) THEN None
    ELSE IF f = "visible" THEN Some(e.attrs[f] = "true")
    ELSE Some(e.attrs[f])

\* C21: a record for an element that already exists replaces all its fields:
\* afterwards the tags are exactly the record's and each of version,
\* changeset, user, uid, visible and timestamp has the record's value, a field
\* the record does not carry being unset.
C21_FullFieldReplacement ==
    \A k \in Kinds :
        (JustHandled(k) /\ ~made[idx - 1].new) =>
            LET e == doc[idx - 1]
                row == db[made[idx - 1].row]
            IN /\ Pairs(row.tags) = {e.tags[i] : i \in 1..Len(e.tags)}
               /\ \A f \in {"version", "changeset", "user", "uid", "visible", "timestamp"} :
                     row[f] = RecordField(e, f)

\* C22: a before_compile event for a query instance already seen returns
\* without analysing; the first event of an instance is analysed (when the
\* query has a filter on our models) whether or not another instance with an
\* equal filter was seen before.
C22_AnalysedOncePerInstance ==
    [][ \A query \in Queries :
          Read(query) =>
            /\ query.id \in visited => (tree' = None /\ visited' = visited)
            /\ (/\ query.id \notin visited
                /\ query.types \cap OurModels # {}
                /\ query.whereclause # None)
               => (tree' # None /\ visited' = visited \cup {query.id}) ]_vars

\* A filtered query on our models was just run and not analysed (its instance
\* had been seen), after two instances were seen
C22_Witness ==
    /\ lastq # None /\ tree = None
    /\ lastq[1].query.types = {"OSMNode"} /\ lastq[1].query.whereclause = Some(LatLon)
    /\ visited = QueryIds

\* C23 as stated: a query without a filter, or whose classes are disjoint
\* from {node, way, relation}, is not analysed and leads to no fetch, and an
\* expression is produced only for the classes among node, way and relation
\* that the query targets.
C23_SkipsOutsideThreeKinds ==
    [][ \A query \in Queries :
          Read(query) =>
            /\ fetches' = fetches
            /\ query.whereclause = None => tree' = None
            /\ query.types \cap {"OSMNode", "OSMWay", "OSMRelation"} = {} => tree' = None
            /\ tree' # None =>
                  DOMAIN tree'[1] = query.types \cap {"OSMNode", "OSMWay", "OSMRelation"} ]_vars

\* C23 amended: the classes the hook takes for its own are node, way,
\* relation and the base class element; a query without a filter, or whose
\* classes are disjoint from these four, is not analysed and leads to no
\* fetch, and an expression is produced only for those of the four that the
\* query targets.
C23_SkipsOutsideOurModels ==
    [][ \A query \in Queries :
          Read(query) =>
            /\ fetches' = fetches
            /\ query.whereclause = None => tree' = None
            /\ query.types \cap {"OSMNode", "OSMWay", "OSMRelation", "OSMElement"} = {}
                  => tree' = None
            /\ tree' # None =>
                  DOMAIN tree'[1] =
                      query.types \cap {"OSMNode", "OSMWay", "OSMRelation", "OSMElement"} ]_vars

\* A filtered query for the base class was analysed; and a filtered query for
\* a class of another model was not
C23_Witness ==
    /\ lastq # None /\ lastq[1].query.whereclause # None
    /\ \/ lastq[1].query.types = {"OSMElement"} /\ tree # None /\ DOMAIN tree[1] = {"OSMElement"}
       \/ lastq[1].query.types = {"OSMElement", "User"} /\ tree # None

\* The symbols of the comparison operators
CompareSymbol ==
    [eq |-> "==", ne |-> "!=", lt |-> "<", gt |-> ">", le |-> "<=", ge |-> ">="]

\* C24: a comparison is translated, to (op, field, literal), if and only if
\* its left side is a column of the targeted class, its right side is a
\* literal and its operator is one of ==, !=, <, >, <=, >=; every other
\* comparison, one with AND or OR as its operator included, yields absence.
C24_ComparisonAccepted ==
    (/\ lastq # None /\ tree # None
     /\ lastq[1].query.whereclause[1].t = "BinaryExpression")
    => \A target \in DOMAIN tree[1] :
          LET c == lastq[1].query.whereclause[1]
              accepted == /\ c.left.t = "AnnotatedColumn" /\ c.left.model = target
                          /\ c.right.t = "BindParameter"
                          /\ c.operator \in DOMAIN CompareSymbol
          IN IF accepted
             THEN tree[1][target] = <<CompareSymbol[c.operator], c.left.name, c.right.value>>
             ELSE tree[1][target] = None

\* Whether a child of a combinator is understood for the target: a combinator
\* with AND or OR, or a comparison of a column of the target with a literal
Understood(c, target) ==
    \/ c.t = "BooleanClauseList" /\ c.operator \in {"and_", "or_"}
    \/ /\ c.t = "BinaryExpression"
       /\ c.left.t = "AnnotatedColumn" /\ c.left.model = target
       /\ c.right.t = "BindParameter"
       /\ c.operator \in DOMAIN CompareSymbol

\* Whether result is the clause with the branches that are not understood
\* removed and nothing else changed
RECURSIVE KeepsUnderstood(_, _, _)
KeepsUnderstood(clause, target, result) ==
    IF clause.t = "BooleanClauseList" THEN
        LET kept == SelectSeq(clause.clauses, LAMBDA c : Understood(c, target)) IN
        /\ result # None
        /\ Len(result) = 2
        /\ result[1] = (IF clause.operator = "and_" THEN "&&" ELSE "||")
        /\ Len(result[2]) = Len(kept)
        /\ \A i \in 1..Len(kept) : KeepsUnderstood(kept[i], target, result[2][i])
    ELSE result = <<CompareSymbol[clause.operator], clause.left.name, clause.right.value>>

\* C25: the analysis of an AND or OR some of whose children are unsupported is
\* a combinator with the same operator over exactly the understood children,
\* in their order; an unsupported child at any depth removes only its own
\* branch and the enclosing combinators are still there.
C25_CombinatorKeepsUnderstood ==
    (/\ lastq # None /\ tree # None
     /\ lastq[1].query.whereclause[1].t = "BooleanClauseList")
    => \A target \in DOMAIN tree[1] :
          KeepsUnderstood(lastq[1].query.whereclause[1], target, tree[1][target])

\* The filter whose OR holds a subquery comparison and whose nested AND holds
\* an unknown clause type and a comparison on another class was analysed for
\* nodes
C25_Witness ==
    /\ lastq # None /\ tree # None
    /\ lastq[1].query.whereclause = Some(Mixed)
    /\ lastq[1].query.types = {"OSMNode"}
    /\ tree[1]["OSMNode"] =
          <<"||", << <<"==", "id", 1>>,
                     <<"&&", << <<"&&", << <<">=", "latitude", 500>>,
                                           <<"<=", "longitude", 72>> >> >> >> >> >> >>

\* Elements a filter is evaluated on: nodes and ways with a few ids and
\* coordinates on both sides of the literals of the filters
Elements ==
    {[NewElement("node", id) EXCEPT !.latitude = Some(lat), !.longitude = Some(lon)] :
        id \in 1..2, lat \in {499, 507}, lon \in {71, 73}}
    \cup {NewElement("way", id) : id \in 1..2}

\* Whether the element satisfies a canonical expression: a comparison holds
\* when the field has a value the operator relates to the literal, && when all
\* children hold, || when some child holds
RECURSIVE Holds(_, _)
Holds(expr, row) ==
    IF Len(expr) = 2 THEN
        IF expr[1] = "&&"
        THEN \A i \in 1..Len(expr[2]) : Holds(expr[2][i], row)
        ELSE \E i \in 1..Len(expr[2]) : Holds(expr[2][i], row)
    ELSE /\ ColumnValue(row, expr[2]) # None
         /\ LET a == ColumnValue(row, expr[2])[1] IN
            CASE expr[1] = "==" -> a = expr[3] [] expr[1] = "!=" -> a # expr[3]
              [] expr[1] = "<" -> a < expr[3] [] expr[1] = ">" -> a > expr[3]
              [] expr[1] = "<=" -> a <= expr[3] [] expr[1] = ">=" -> a >= expr[3]
              [] OTHER -> FALSE

\* Whether the analysis has something to understand in the clause for the
\* target: a translatable comparison, alone or somewhere below AND and OR
RECURSIVE Usable(_, _)
Usable(clause, target) ==
    IF clause.t = "BooleanClauseList"
    THEN /\ clause.operator \in {"and_", "or_"}
         /\ \E i \in 1..Len(clause.clauses) : Usable(clause.clauses[i], target)
    ELSE Understood(clause, target)

\* C26: every element of the class that satisfies the filter of the query
\* satisfies the canonical expression produced for the class, and when nothing
\* of the filter was understood for the class, an AND or OR without an
\* understood child included, the result is absent.
C26_NeverUnderFetches ==
    (lastq # None /\ tree # None) =>
        \A target \in DOMAIN tree[1] :
            LET clause == lastq[1].query.whereclause[1] IN
            /\ ~Usable(clause, target) => tree[1][target] = None
            /\ tree[1][target] # None =>
                  \A row \in Elements :
                      (target \in {ClassOf(row.type), "OSMElement"} /\ Selects(clause, row))
                          => Holds(tree[1][target], row)

\* The rows of a result in the order the store gives them
RECURSIVE ResultOrder(_)
ResultOrder(rows) ==
    IF rows = {} THEN <<>>
    ELSE LET r == CHOOSE x \in rows : \A y \in rows : x <= y
         IN <<r>> \o ResultOrder(rows \ {r})

\* C27: within one read, the hook with its fetch and merge, if any, comes
\* before the execution of the query, and after the execution the freshness
\* of every element of the result is checked, once each, in result order.
C27_ReadOrdering ==
    [][ \A query \in ReadQueries :
          Read(query) =>
            \E x \in 1..Len(events') :
                /\ events'[x].e = "execute"
                /\ \A i \in 1..(x - 1) : events'[i].e \in {"before_compile", "fetch", "merge"}
                /\ SubSeq(events', x + 1, Len(events')) =
                      [i \in 1..Cardinality(Result(sess, query)) |->
                          [e |-> "check", row |-> ResultOrder(Result(sess, query))[i]]] ]_vars

\* C28: after the import of a relation record that lists itself as a member,
\* the relation not being in the store before, there is exactly one stored
\* relation with that id and its member at that position is that relation; no
\* other row has its (kind, id).
C28_SelfMemberStoredOnce ==
    (JustHandled("relation") /\ made[idx - 1].new) =>
        LET r == made[idx - 1].row
            ms == doc[idx - 1].members
        IN \A i \in 1..Len(ms) :
              (ms[i].type = "relation" /\ ms[i].ref = doc[idx - 1].attrs.id) =>
                  /\ Cardinality({x \in 1..Len(db) : Key(db[x]) = Key(db[r])}) = 1
                  /\ RelationMembers(db, r)[i][1] = r

\* C29: a call of the hook changes nothing but its own bookkeeping: the store
\* and the session are as before, no remote fetch is issued, the query is
\* executed as it was given, with its filter, and the one change is that the
\* query instance is among the visited ones.
C29_HookOnlyRecordsVisit ==
    [][ \A query \in HookQueries :
          Read(query) =>
            /\ db' = db /\ sess' = sess
            /\ fetches' = fetches
            /\ lastq'[1].query = query
            /\ lastq'[1].rows =
                  {r \in 1..Len(sess) :
                      /\ query.types \cap {ClassOf(sess[r].type), "OSMElement"} # {}
                      /\ query.whereclause # None => Selects(query.whereclause[1], sess[r])}
            /\ visited' = visited \cup {query.id} ]_vars

\* A filtered query was run on a store that holds an element older than
\* maxage, which is in the result
C29_Witness ==
    /\ lastq # None /\ lastq[1].query.whereclause # None
    /\ lastq[1].query.id \in visited
    /\ \E r \in lastq[1].rows : Stale(sess[r], now)
    /\ fetches = <<>>

\* C30: a child of the document that is neither a node, a way nor a relation
\* record is skipped: handling it leaves the store and the session as they
\* are, and in an import that ends without error every record before and
\* after it has been handled and is stored under its kind and id with its
\* tags, as in a document without the child.
C30_OtherChildrenSkipped ==
    /\ [][ SkipChild => (db' = db /\ sess' = sess /\ stubs' = stubs) ]_vars
    /\ [](  (pc = "idle" /\ error = "none" /\ imports > 0) =>
              /\ Len(made) = Len(doc)
              /\ \A i \in 1..Len(doc) :
                    IF doc[i].name \in Kinds
                    THEN /\ made[i].row \in 1..Len(db)
                         /\ Key(db[made[i].row]) = <<doc[i].name, doc[i].attrs.id>>
                    ELSE made[i].row = 0
              /\ \A r \in (Len(pre) + 1)..Len(db) :
                    \/ \E i \in 1..Len(doc) : made[i].row = r
                    \/ \E st \in stubs : st.row = r )

\* An import with a bounds child between records has ended without error
C30_Witness ==
    /\ pc = "idle" /\ error = "none" /\ imports > 0
    /\ \E i, j, k \in 1..Len(doc) :
          /\ i < j /\ j < k
          /\ doc[i].name \in Kinds /\ doc[j].name = "bounds" /\ doc[k].name \in Kinds
          /\ made[i].row # 0 /\ made[k].row # 0

====
